---- MODULE Spec2Model ----
(***************************************************************************)
(* The ERC-8004 agent identity registry (AgentIdentityRegistry.sol, an     *)
(* ERC-721 with URI storage and a per-agent key/value store) and the       *)
(* backend service that republishes the agent's tokenURI on a timer        *)
(* (updaterService.ts), together with the cache the backend keeps of the   *)
(* agent's live figures (statsService.ts).                                 *)
(***************************************************************************)
EXTENDS Integers, Sequences, FiniteSets, TLC

\* ------------------------------------------------------------------ bounds
MaxAgents == 2      \* register() is cut off once this many agents exist
MaxCalls == 3       \* registry transactions per behaviour
MaxRuns == 2        \* updateTokenURI() invocations per behaviour
MaxAdvances == 1    \* times the wall clock is seen to advance
MaxChain == 4       \* registry transactions in a behaviour where none reverts
MaxRequests == 3    \* getStats() invocations per behaviour
MaxTicks == 2       \* times the millisecond clock of statsService is seen to advance

\* -------------------------------------------------------------- principals
ZERO == "0x0"                               \* address(0)
Accounts == {"alice", "bob"}                \* externally owned accounts
NonReceivers == {"vault"}                   \* contracts without onERC721Received
Principals == Accounts \cup NonReceivers
Deployer == "alice"                         \* Ownable(msg.sender)

AgentIds == 1..MaxAgents                    \* the ids a call may name
URIs == {"", "A", "B"}
Keys == {"agentWallet", "version"}
Values == {"", "0x01"}                      \* bytes; "" is the empty value

VARIABLES
    nextAgentId,        \* uint256 private _nextAgentId
    owners,             \* ERC721._owners
    tokenApprovals,     \* ERC721._tokenApprovals
    operatorApprovals,  \* ERC721._operatorApprovals, as a set of <<owner, operator>>
    tokenURIs,          \* ERC721URIStorage._tokenURIs
    metadata,           \* _metadata[agentId][key]
    lastCall,           \* the last registry transaction and its outcome
    calls,              \* number of registry transactions so far
    pre,                \* the registry's storage just before the last transaction
    everSet,            \* the <<agentId, key>> pairs a setMetadata has written
    updaterPrivateKey,  \* config.updaterPrivateKey is set
    registryAddress,    \* config.registryAddress is set
    started,            \* initUpdater() has been called
    registry,           \* the module-level `registry` contract handle is defined
    cronScheduled,      \* cron.schedule(...) has armed the recurring task
    warmupPending,      \* the setTimeout(..., 10000) has been armed and has not fired
    runs,               \* every updateTokenURI() invocation, in start order
    lastReply,          \* what the latest triggerUpdate() to return has returned
    adminApiKey,        \* config.adminApiKey, "" when ADMIN_API_KEY is unset
    lastRequest,        \* the latest POST /erc8004/admin/force-update, as adminAuth saw it
    now,                \* Math.floor(Date.now() / 1000), counted from initUpdater()
    cachedStats,        \* statsService: let cachedStats, NoStats for null
    cacheTimestamp,     \* statsService: let cacheTimestamp, in ms
    clock,              \* Date.now() in ms, as statsService reads it
    requests,           \* every getStats() invocation, in start order
    cachedBy,           \* the invocation whose fetch wrote cachedStats, 0 for none
    lastSuccessAt,      \* when the last successful fetch was answered, -1 for none
    ticks               \* number of clock advances statsService has seen

registryVars == <<nextAgentId, owners, tokenApprovals, operatorApprovals,
                  tokenURIs, metadata>>
callVars == <<lastCall, calls, pre, everSet>>
statsVars == <<cachedStats, cacheTimestamp, clock, requests, cachedBy,
               lastSuccessAt, ticks>>
adminVars == <<adminApiKey, lastRequest, statsVars>>
updaterVars == <<adminApiKey, lastRequest, statsVars,
                 updaterPrivateKey, registryAddress,
                 started, registry,
                 cronScheduled, warmupPending, runs, lastReply, now>>
vars == <<nextAgentId, owners, tokenApprovals, operatorApprovals, tokenURIs,
          metadata, lastCall, calls, pre, everSet, updaterPrivateKey,
          registryAddress,
          started, registry, cronScheduled, warmupPending, runs, lastReply,
          now,
          adminApiKey, lastRequest,
          cachedStats, cacheTimestamp, clock, requests, cachedBy,
          lastSuccessAt, ticks>>

\* the registry's storage, as one value
Snapshot ==
    [nextAgentId |-> nextAgentId, owners |-> owners,
     tokenApprovals |-> tokenApprovals, operatorApprovals |-> operatorApprovals,
     tokenURIs |-> tokenURIs, metadata |-> metadata]

\* --------------------------------------------------------- revert reasons
OK == "ok"
ErrTokenURIEmpty == "TokenURI cannot be empty"
ErrURIEmpty == "URI cannot be empty"
ErrNotOwnerOrApproved == "Not owner or approved"
ErrNonexistentToken == "ERC721NonexistentToken"
ErrInsufficientApproval == "ERC721InsufficientApproval"
ErrInvalidReceiver == "ERC721InvalidReceiver"
ErrIncorrectOwner == "ERC721IncorrectOwner"
ErrInvalidApprover == "ERC721InvalidApprover"
ErrInvalidOperator == "ERC721InvalidOperator"

ValidationError == {ErrTokenURIEmpty, ErrURIEmpty}
PermissionDenied == {ErrNotOwnerOrApproved, ErrInsufficientApproval,
                     ErrInvalidApprover}
NotFound == {ErrNonexistentToken}

\* ------------------------------------------------------------------ events
NoEvents == << >>
Event(name, agentId, uri, key, value, owner, from, to) ==
    [name |-> name, agentId |-> agentId, uri |-> uri, key |-> key,
     value |-> value, owner |-> owner, from |-> from, to |-> to]

\* event Registered(agentId, tokenURI, owner)
Registered(agentId, uri, owner) ==
    Event("Registered", agentId, uri, "", "", owner, ZERO, ZERO)
\* event AgentURIUpdated(agentId, newURI)
AgentURIUpdated(agentId, uri) ==
    Event("AgentURIUpdated", agentId, uri, "", "", ZERO, ZERO, ZERO)
\* event MetadataSet(agentId, key, value)
MetadataSet(agentId, key, value) ==
    Event("MetadataSet", agentId, "", key, value, ZERO, ZERO, ZERO)
\* the events the inherited ERC-721 code emits
Transfer(from, to, agentId) ==
    Event("Transfer", agentId, "", "", "", ZERO, from, to)
MetadataUpdate(agentId) ==
    Event("MetadataUpdate", agentId, "", "", "", ZERO, ZERO, ZERO)
Approval(owner, to, agentId) ==
    Event("Approval", agentId, "", "", "", owner, ZERO, to)
ApprovalForAll(owner, operator, flag) ==
    Event(IF flag THEN "ApprovalForAll(true)" ELSE "ApprovalForAll(false)",
          0, "", "", "", owner, ZERO, operator)

Call(op, caller, agentId, uri, key, value, from, to, flag, status, ret, events) ==
    [op |-> op, caller |-> caller, agentId |-> agentId, uri |-> uri,
     key |-> key, value |-> value, from |-> from, to |-> to, flag |-> flag,
     status |-> status, ret |-> ret, events |-> events]

NoCall == Call("none", ZERO, 0, "", "", "", ZERO, ZERO, FALSE, OK, 0, NoEvents)

\* ------------------------------------------------------- ERC-721 queries
Exists(agentId) == owners[agentId] # ZERO

\* ownerOf(agentId); the caller has checked Exists(agentId)
OwnerOf(agentId) == owners[agentId]

IsApprovedForAll(owner, operator) == <<owner, operator>> \in operatorApprovals

GetApproved(agentId) == tokenApprovals[agentId]

\* an authorization check that lets every caller through
IsAuthorizedAnyone(owner, spender, agentId) == spender # ZERO

\* ERC721._isAuthorized(owner, spender, tokenId)
IsAuthorized(owner, spender, agentId) ==
    /\ spender # ZERO
    /\ \/ owner = spender
       \/ IsApprovedForAll(owner, spender)
       \/ GetApproved(agentId) = spender

\* ------------------------------------------------------------- register
\* a register() that hands out the counter's value after the increment
RegisterAgentIdAfterIncrement == nextAgentId + 1

\* a register() that hands out the latest id again
RegisterAgentIdReusesLast == IF nextAgentId > 1 THEN nextAgentId - 1 ELSE 1

\* uint256 agentId = _nextAgentId++
RegisterAgentId == nextAgentId

\* a register() without its require on the URI
RegisterStatusNoEmptyCheck(caller, uri) ==
    IF caller \in NonReceivers THEN ErrInvalidReceiver ELSE OK

\* a register() that mints with _mint, which asks nothing of the receiver
RegisterStatusUnsafeMint(caller, uri) ==
    IF uri = "" THEN ErrTokenURIEmpty ELSE OK

\* register(tokenURI_): the revert reason, or OK
RegisterStatus(caller, uri) ==
    IF uri = "" THEN ErrTokenURIEmpty
    ELSE IF caller \in NonReceivers THEN ErrInvalidReceiver   \* _safeMint
    ELSE OK

\* a register() that leaves out its own event
RegisterEventsWithoutRegistered(caller, agentId, uri) ==
    <<Transfer(ZERO, caller, agentId), MetadataUpdate(agentId)>>

\* the log of a successful register(): _safeMint emits Transfer,
\* _setTokenURI emits MetadataUpdate, then register emits Registered
RegisterEvents(caller, agentId, uri) ==
    <<Transfer(ZERO, caller, agentId),
      MetadataUpdate(agentId),
      Registered(agentId, uri, caller)>>

Register(caller, uri) ==
    LET status == RegisterStatus(caller, uri)
        agentId == RegisterAgentId
    IN  /\ status = OK => nextAgentId <= MaxAgents
        /\ calls' = calls + 1
        /\ pre' = Snapshot
        /\ UNCHANGED everSet
        /\ IF status = OK
           THEN /\ nextAgentId' = nextAgentId + 1
                /\ owners' = [owners EXCEPT ![agentId] = caller]
                /\ tokenURIs' = [tokenURIs EXCEPT ![agentId] = uri]
                /\ lastCall' = Call("register", caller, agentId, uri, "", "",
                                    ZERO, ZERO, FALSE, OK, agentId,
                                    RegisterEvents(caller, agentId, uri))
                /\ UNCHANGED <<tokenApprovals, operatorApprovals, metadata>>
           ELSE /\ lastCall' = Call("register", caller, 0, uri, "", "",
                                    ZERO, ZERO, FALSE, status, 0, NoEvents)
                /\ UNCHANGED registryVars
        /\ UNCHANGED updaterVars

\* ----------------------------------------------------------- setAgentURI
\* a setAgentURI that lets only the owner through
MaySetAgentURIOwnerOnly(caller, agentId) == OwnerOf(agentId) = caller

\* the first require of setAgentURI
MaySetAgentURI(caller, agentId) ==
    \/ OwnerOf(agentId) = caller
    \/ IsApprovedForAll(OwnerOf(agentId), caller)
    \/ GetApproved(agentId) = caller

\* a setAgentURI without its second require
SetAgentURIStatusNoEmptyCheck(caller, agentId, newURI) ==
    IF ~Exists(agentId) THEN ErrNonexistentToken
    ELSE IF ~MaySetAgentURI(caller, agentId) THEN ErrNotOwnerOrApproved
    ELSE OK

\* a setAgentURI that looks at the URI before it looks at the caller
SetAgentURIStatusEmptyCheckFirst(caller, agentId, newURI) ==
    IF newURI = "" THEN ErrURIEmpty
    ELSE IF ~Exists(agentId) THEN ErrNonexistentToken
    ELSE IF ~MaySetAgentURI(caller, agentId) THEN ErrNotOwnerOrApproved
    ELSE OK

\* setAgentURI(agentId, newURI): the revert reason, or OK
SetAgentURIStatus(caller, agentId, newURI) ==
    IF ~Exists(agentId) THEN ErrNonexistentToken          \* ownerOf reverts
    ELSE IF ~MaySetAgentURI(caller, agentId) THEN ErrNotOwnerOrApproved
    ELSE IF newURI = "" THEN ErrURIEmpty
    ELSE OK

\* a setAgentURI that stores the URI before its second require and gives up
\* with a plain return
SetAgentURIEffectWritesBeforeCheck(caller, agentId, newURI) ==
    LET status == SetAgentURIStatus(caller, agentId, newURI)
    IN  /\ IF status \in {OK, ErrURIEmpty}
           THEN tokenURIs' = [tokenURIs EXCEPT ![agentId] = newURI]
           ELSE UNCHANGED tokenURIs
        /\ lastCall' = Call("setAgentURI", caller, agentId, newURI, "", "",
                            ZERO, ZERO, FALSE, status, 0,
                            IF status = OK
                            THEN <<MetadataUpdate(agentId),
                                   AgentURIUpdated(agentId, newURI)>>
                            ELSE NoEvents)
        /\ UNCHANGED <<nextAgentId, owners, tokenApprovals, operatorApprovals,
                       metadata>>

\* a setAgentURI that stores the URI on every agent that exists
SetAgentURIEffectWritesEveryToken(caller, agentId, newURI) ==
    LET status == SetAgentURIStatus(caller, agentId, newURI)
    IN  /\ IF status = OK
           THEN tokenURIs' = [i \in AgentIds |->
                                 IF Exists(i) THEN newURI ELSE tokenURIs[i]]
           ELSE UNCHANGED tokenURIs
        /\ lastCall' = Call("setAgentURI", caller, agentId, newURI, "", "",
                            ZERO, ZERO, FALSE, status, 0,
                            IF status = OK
                            THEN <<MetadataUpdate(agentId),
                                   AgentURIUpdated(agentId, newURI)>>
                            ELSE NoEvents)
        /\ UNCHANGED <<nextAgentId, owners, tokenApprovals, operatorApprovals,
                       metadata>>

\* a setAgentURI that makes its caller the owner of the agent
SetAgentURIEffectTakesOwnership(caller, agentId, newURI) ==
    LET status == SetAgentURIStatus(caller, agentId, newURI)
    IN  /\ IF status = OK
           THEN /\ tokenURIs' = [tokenURIs EXCEPT ![agentId] = newURI]
                /\ owners' = [owners EXCEPT ![agentId] = caller]
           ELSE UNCHANGED <<tokenURIs, owners>>
        /\ lastCall' = Call("setAgentURI", caller, agentId, newURI, "", "",
                            ZERO, ZERO, FALSE, status, 0,
                            IF status = OK
                            THEN <<MetadataUpdate(agentId),
                                   AgentURIUpdated(agentId, newURI)>>
                            ELSE NoEvents)
        /\ UNCHANGED <<nextAgentId, tokenApprovals, operatorApprovals,
                       metadata>>

\* the log of a successful setAgentURI(): _setTokenURI emits MetadataUpdate,
\* then setAgentURI emits AgentURIUpdated
SetAgentURIEvents(agentId, newURI) ==
    <<MetadataUpdate(agentId), AgentURIUpdated(agentId, newURI)>>

\* the state change and outcome of setAgentURI, shared by direct callers and
\* by the updater's mined transaction
SetAgentURIEffect(caller, agentId, newURI) ==
    LET status == SetAgentURIStatus(caller, agentId, newURI)
    IN  /\ IF status = OK
           THEN tokenURIs' = [tokenURIs EXCEPT ![agentId] = newURI]
           ELSE UNCHANGED tokenURIs
        /\ lastCall' = Call("setAgentURI", caller, agentId, newURI, "", "",
                            ZERO, ZERO, FALSE, status, 0,
                            IF status = OK
                            THEN SetAgentURIEvents(agentId, newURI)
                            ELSE NoEvents)
        /\ UNCHANGED <<nextAgentId, owners, tokenApprovals, operatorApprovals,
                       metadata>>

SetAgentURI(caller, agentId, newURI) ==
    /\ calls' = calls + 1
    /\ pre' = Snapshot
    /\ UNCHANGED everSet
    /\ SetAgentURIEffect(caller, agentId, newURI)
    /\ UNCHANGED updaterVars

\* ----------------------------------------------------------- setMetadata
\* a setMetadata that reuses the three-way check of setAgentURI
MaySetMetadataWithApproved(caller, agentId) ==
    \/ OwnerOf(agentId) = caller
    \/ IsApprovedForAll(OwnerOf(agentId), caller)
    \/ GetApproved(agentId) = caller

\* a setMetadata that lets only the owner through
MaySetMetadataOwnerOnly(caller, agentId) == OwnerOf(agentId) = caller

\* a setMetadata check that also lets the registry's deployer through
MaySetMetadataOrDeployer(caller, agentId) ==
    \/ OwnerOf(agentId) = caller
    \/ IsApprovedForAll(OwnerOf(agentId), caller)
    \/ caller = Deployer

\* the require of setMetadata
MaySetMetadata(caller, agentId) ==
    \/ OwnerOf(agentId) = caller
    \/ IsApprovedForAll(OwnerOf(agentId), caller)

\* a setMetadata that turns away strangers of minted agents only
SetMetadataStatusUnmintedOpen(caller, agentId) ==
    IF Exists(agentId) /\ ~MaySetMetadata(caller, agentId)
    THEN ErrNotOwnerOrApproved
    ELSE OK

\* setMetadata(agentId, key, value): the revert reason, or OK
SetMetadataStatus(caller, agentId) ==
    IF ~Exists(agentId) THEN ErrNonexistentToken          \* ownerOf reverts
    ELSE IF ~MaySetMetadata(caller, agentId) THEN ErrNotOwnerOrApproved
    ELSE OK

\* a write that stores the value under every key of the agent
SetMetadataWriteAllKeys(agentId, key, value) ==
    [metadata EXCEPT ![agentId] = [k \in Keys |-> value]]

\* a write that keeps a value already stored under the key
SetMetadataWriteOnce(agentId, key, value) ==
    IF metadata[agentId][key] = ""
    THEN [metadata EXCEPT ![agentId][key] = value]
    ELSE metadata

\* _metadata[agentId][key] = value
SetMetadataWrite(agentId, key, value) ==
    [metadata EXCEPT ![agentId][key] = value]

\* the log of a successful setMetadata()
SetMetadataEvents(agentId, key, value) == <<MetadataSet(agentId, key, value)>>

SetMetadata(caller, agentId, key, value) ==
    LET status == SetMetadataStatus(caller, agentId)
    IN  /\ calls' = calls + 1
        /\ pre' = Snapshot
        /\ everSet' = IF status = OK THEN everSet \cup {<<agentId, key>>}
                                       ELSE everSet
        /\ IF status = OK
           THEN metadata' = SetMetadataWrite(agentId, key, value)
           ELSE UNCHANGED metadata
        /\ lastCall' = Call("setMetadata", caller, agentId, "", key, value,
                            ZERO, ZERO, FALSE, status, 0,
                            IF status = OK
                            THEN SetMetadataEvents(agentId, key, value)
                            ELSE NoEvents)
        /\ UNCHANGED <<nextAgentId, owners, tokenApprovals, operatorApprovals,
                       tokenURIs>>
        /\ UNCHANGED updaterVars

\* a getMetadata that asks for the owner first, as tokenURI does
GetMetadataStatusRequiresOwner(agentId, key) ==
    IF Exists(agentId) THEN OK ELSE ErrNonexistentToken

\* getMetadata(agentId, key): a plain mapping read, it has no revert path
GetMetadataStatus(agentId, key) == OK
GetMetadata(agentId, key) == metadata[agentId][key]

\* nextAgentId()
NextAgentId == nextAgentId

\* a tokenURI that returns the stored string without asking for the owner
TokenURIStatusNeverReverts(agentId) == OK

\* tokenURI(agentId): reverts for a token that was never minted
TokenURIStatus(agentId) == IF Exists(agentId) THEN OK ELSE ErrNonexistentToken
TokenURI(agentId) == tokenURIs[agentId]

\* ownerOf(agentId): reverts for a token that was never minted
OwnerOfStatus(agentId) == IF Exists(agentId) THEN OK ELSE ErrNonexistentToken

\* ------------------------------------------- inherited ERC-721 operations
\* a transfer that accepts address(0) as the receiver
TransferFromStatusAllowsZero(caller, from, to, agentId) ==
    IF ~Exists(agentId) THEN ErrNonexistentToken
    ELSE IF ~IsAuthorized(OwnerOf(agentId), caller, agentId)
         THEN ErrInsufficientApproval
    ELSE IF OwnerOf(agentId) # from THEN ErrIncorrectOwner
    ELSE OK

\* a transferFrom only the owner may call
TransferFromStatusOwnerOnly(caller, from, to, agentId) ==
    IF to = ZERO THEN ErrInvalidReceiver
    ELSE IF ~Exists(agentId) THEN ErrNonexistentToken
    ELSE IF OwnerOf(agentId) # caller THEN ErrInsufficientApproval
    ELSE IF OwnerOf(agentId) # from THEN ErrIncorrectOwner
    ELSE OK

\* transferFrom(from, to, agentId): the revert reason, or OK
TransferFromStatus(caller, from, to, agentId) ==
    IF to = ZERO THEN ErrInvalidReceiver
    ELSE IF ~Exists(agentId) THEN ErrNonexistentToken
    ELSE IF ~IsAuthorized(OwnerOf(agentId), caller, agentId)
         THEN ErrInsufficientApproval
    ELSE IF OwnerOf(agentId) # from THEN ErrIncorrectOwner
    ELSE OK

\* a transfer that leaves the token's approval in place
TransferFromEffectKeepsApproval(to, agentId) ==
    /\ owners' = [owners EXCEPT ![agentId] = to]
    /\ UNCHANGED <<tokenApprovals, metadata, operatorApprovals>>

\* a transfer that also withdraws the operators of the previous owner
TransferFromEffectDropsOperators(to, agentId) ==
    /\ owners' = [owners EXCEPT ![agentId] = to]
    /\ tokenApprovals' = [tokenApprovals EXCEPT ![agentId] = ZERO]
    /\ operatorApprovals' =
          {p \in operatorApprovals : p[1] # owners[agentId]}
    /\ UNCHANGED metadata

\* a transfer that hands the agent over with an empty key/value store
TransferFromEffectClearsMetadata(to, agentId) ==
    /\ owners' = [owners EXCEPT ![agentId] = to]
    /\ tokenApprovals' = [tokenApprovals EXCEPT ![agentId] = ZERO]
    /\ metadata' = [metadata EXCEPT ![agentId] = [k \in Keys |-> ""]]
    /\ UNCHANGED operatorApprovals

\* ERC721._update: the approval is cleared and the owner replaced; operator
\* approvals are keyed by owner and stay, and the registry overrides no
\* transfer hook, so _metadata is not touched
TransferFromEffect(to, agentId) ==
    /\ owners' = [owners EXCEPT ![agentId] = to]
    /\ tokenApprovals' = [tokenApprovals EXCEPT ![agentId] = ZERO]
    /\ UNCHANGED <<metadata, operatorApprovals>>

TransferFrom(caller, from, to, agentId) ==
    LET status == TransferFromStatus(caller, from, to, agentId)
    IN  /\ calls' = calls + 1
        /\ pre' = Snapshot
        /\ UNCHANGED everSet
        /\ IF status = OK
           THEN TransferFromEffect(to, agentId)
           ELSE UNCHANGED <<owners, tokenApprovals, metadata,
                            operatorApprovals>>
        /\ lastCall' = Call("transferFrom", caller, agentId, "", "", "",
                            from, to, FALSE, status, 0,
                            IF status = OK
                            THEN <<Transfer(from, to, agentId)>>
                            ELSE NoEvents)
        /\ UNCHANGED <<nextAgentId, tokenURIs>>
        /\ UNCHANGED updaterVars

\* approve(to, agentId): the revert reason, or OK
ApproveStatus(caller, to, agentId) ==
    IF ~Exists(agentId) THEN ErrNonexistentToken
    ELSE IF OwnerOf(agentId) # caller
            /\ ~IsApprovedForAll(OwnerOf(agentId), caller)
         THEN ErrInvalidApprover
    ELSE OK

Approve(caller, to, agentId) ==
    LET status == ApproveStatus(caller, to, agentId)
    IN  /\ calls' = calls + 1
        /\ pre' = Snapshot
        /\ UNCHANGED everSet
        /\ IF status = OK
           THEN tokenApprovals' = [tokenApprovals EXCEPT ![agentId] = to]
           ELSE UNCHANGED tokenApprovals
        /\ lastCall' = Call("approve", caller, agentId, "", "", "",
                            ZERO, to, FALSE, status, 0,
                            IF status = OK
                            THEN <<Approval(OwnerOf(agentId), to, agentId)>>
                            ELSE NoEvents)
        /\ UNCHANGED <<nextAgentId, owners, operatorApprovals, tokenURIs,
                       metadata>>
        /\ UNCHANGED updaterVars

\* setApprovalForAll(operator, approved): the revert reason, or OK
SetApprovalForAllStatus(caller, operator) ==
    IF operator = ZERO THEN ErrInvalidOperator ELSE OK

SetApprovalForAll(caller, operator, approved) ==
    LET status == SetApprovalForAllStatus(caller, operator)
    IN  /\ calls' = calls + 1
        /\ pre' = Snapshot
        /\ UNCHANGED everSet
        /\ IF status = OK
           THEN operatorApprovals' =
                    IF approved
                    THEN operatorApprovals \cup {<<caller, operator>>}
                    ELSE operatorApprovals \ {<<caller, operator>>}
           ELSE UNCHANGED operatorApprovals
        /\ lastCall' = Call("setApprovalForAll", caller, 0, "", "", "",
                            ZERO, operator, approved, status, 0,
                            IF status = OK
                            THEN <<ApprovalForAll(caller, operator, approved)>>
                            ELSE NoEvents)
        /\ UNCHANGED <<nextAgentId, owners, tokenApprovals, tokenURIs,
                       metadata>>
        /\ UNCHANGED updaterVars

\* ======================================================= the stats service
\* const CACHE_TTL_MS = 5 * 60 * 1000
CACHE_TTL_MS == 5 * 60 * 1000

\* axios.get(..., { timeout: 10000 })
AxiosTimeout == 10000

\* the clock is looked at half a timeout apart, or that much short of a TTL
\* apart, so that a call can start while a fetch is pending and a call can
\* start at one TTL exactly from the cache timestamp
ShortStep == AxiosTimeout \div 2
LongStep == CACHE_TTL_MS - ShortStep
Steps == {ShortStep, LongStep}

\* bodies the daily summary API answers with: every mapped field present, or
\* only some (the others are undefined in response.data)
FullBody == [totalAUM |-> 1234567, totalActiveVaults |-> 12]
SparseBody == [totalAUM |-> 980]
Bodies == {FullBody, SparseBody}

\* data.<field> ?? 0
OrZero(data, field) == IF field \in DOMAIN data THEN data[field] ELSE 0

\* three digits of a group after the first
Pad3(n) ==
    IF n < 10 THEN "00" \o ToString(n)
    ELSE IF n < 100 THEN "0" \o ToString(n)
    ELSE ToString(n)

\* Number(value).toLocaleString("en-US", ...) of a whole number
RECURSIVE Grouped(_)
Grouped(n) ==
    IF n < 1000 THEN ToString(n)
    ELSE Grouped(n \div 1000) \o "," \o Pad3(n % 1000)

\* formatUsd(value)
formatUsd(value) == "$" \o Grouped(value)

\* the AgentStats object getStats() builds from response.data at time t; of
\* its fields: one formatted, one copied, and the time stamp
BuildStats(data, t) ==
    [tvl |-> formatUsd(OrZero(data, "totalAUM")),
     totalVaults |-> OrZero(data, "totalActiveVaults"),
     lastUpdated |-> t]

\* getFallbackStats() called at time t ("-" stands for the dash it shows)
getFallbackStats(t) == [tvl |-> "-", totalVaults |-> 0, lastUpdated |-> t]

\* cachedStats = null
NoStats == [tvl |-> "", totalVaults |-> 0, lastUpdated |-> -1]

\* position of a getStats() invocation
Fetching == "fetching"
Returned == "returned"

\* how a getStats() invocation came by what it returned
FromCache == "cache"
FromFetch == "fetch"
FromCatch == "catch"

RequestIds == 1..Len(requests)
FetchesPending == {c \in RequestIds : requests[c].pc = Fetching}

\* the module-level cache, with the invocation that wrote it
CacheState == [stats |-> cachedStats, timestamp |-> cacheTimestamp,
               by |-> cachedBy]

\* a freshness test that still holds at one TTL exactly
IsFreshInclusive(t) ==
    cachedStats # NoStats /\ t - cacheTimestamp <= CACHE_TTL_MS

\* cachedStats && now - cacheTimestamp < CACHE_TTL_MS
IsFresh(t) ==
    cachedStats # NoStats /\ t - cacheTimestamp < CACHE_TTL_MS

\* the module as loaded: nothing cached, no call made
StatsNotCalled ==
    /\ cachedStats = NoStats
    /\ cacheTimestamp = 0
    /\ clock = 0
    /\ requests = << >>
    /\ cachedBy = 0
    /\ lastSuccessAt = -1
    /\ ticks = 0

\* time passes; a fetch is answered or fails before its timeout is over
Tick(d) ==
    /\ ticks < MaxTicks
    /\ \A c \in FetchesPending : clock + d - requests[c].now < AxiosTimeout
    /\ clock' = clock + d
    /\ ticks' = ticks + 1
    /\ UNCHANGED <<cachedStats, cacheTimestamp, requests, cachedBy,
                   lastSuccessAt>>
    /\ UNCHANGED <<registryVars, callVars, adminApiKey, lastRequest,
                   updaterPrivateKey, registryAddress, started, registry,
                   cronScheduled, warmupPending, runs, lastReply, now>>

\* getStats() up to its first await: a fresh cache is returned at once,
\* otherwise the fetch is issued
GetStats ==
    /\ Len(requests) < MaxRequests
    /\ requests' = Append(requests,
          [now |-> clock,
           fetched |-> ~IsFresh(clock),
           pc |-> IF IsFresh(clock) THEN Returned ELSE Fetching,
           result |-> IF IsFresh(clock) THEN cachedStats ELSE NoStats,
           from |-> IF IsFresh(clock) THEN FromCache ELSE "",
           seen |-> CacheState,
           successSeen |-> lastSuccessAt,
           endedAt |-> IF IsFresh(clock) THEN clock ELSE -1,
           before |-> CacheState,
           after |-> CacheState])
    /\ UNCHANGED <<cachedStats, cacheTimestamp, clock, cachedBy,
                   lastSuccessAt, ticks>>
    /\ UNCHANGED <<registryVars, callVars, adminApiKey, lastRequest,
                   updaterPrivateKey, registryAddress, started, registry,
                   cronScheduled, warmupPending, runs, lastReply, now>>

\* cachedStats = stats; cacheTimestamp = now
WriteCache(c, stats) ==
    /\ cachedStats' = stats
    /\ cacheTimestamp' = requests[c].now
    /\ cachedBy' = c

\* axios.get resolves with a body; the stats are built, cached and returned
Responds(c, data) ==
    /\ c \in FetchesPending
    /\ WriteCache(c, BuildStats(data, clock))
    /\ lastSuccessAt' = clock
    /\ requests' = [requests EXCEPT
          ![c].pc = Returned,
          ![c].result = BuildStats(data, clock),
          ![c].from = FromFetch,
          ![c].endedAt = clock,
          ![c].before = CacheState,
          ![c].after = [stats |-> cachedStats', timestamp |-> cacheTimestamp',
                        by |-> cachedBy']]
    /\ UNCHANGED <<clock, ticks>>
    /\ UNCHANGED <<registryVars, callVars, adminApiKey, lastRequest,
                   updaterPrivateKey, registryAddress, started, registry,
                   cronScheduled, warmupPending, runs, lastReply, now>>

\* a catch block that hands out the fallback whatever is cached
CatchResultAlwaysFallback(t) == getFallbackStats(t)

\* if (cachedStats) return cachedStats; return getFallbackStats();
CatchResult(t) ==
    IF cachedStats # NoStats THEN cachedStats ELSE getFallbackStats(t)

\* the catch block assigns nothing
CatchEffect == UNCHANGED <<cachedStats, cacheTimestamp, cachedBy, lastSuccessAt>>

\* the catch block of getStats()
Caught(c) ==
    /\ CatchEffect
    /\ requests' = [requests EXCEPT
          ![c].pc = Returned,
          ![c].result = CatchResult(clock),
          ![c].from = FromCatch,
          ![c].endedAt = clock,
          ![c].before = CacheState,
          ![c].after = [stats |-> cachedStats', timestamp |-> cacheTimestamp',
                        by |-> cachedBy']]
    /\ UNCHANGED <<clock, ticks>>
    /\ UNCHANGED <<registryVars, callVars, adminApiKey, lastRequest,
                   updaterPrivateKey, registryAddress, started, registry,
                   cronScheduled, warmupPending, runs, lastReply, now>>

\* something throws inside the try: axios.get rejects (network error, error
\* status or timeout), or it resolves without a body and reading
\* response.data.totalAUM throws
FetchFails(c) ==
    /\ c \in FetchesPending
    /\ Caught(c)

\* ------------------------------------------------------------ the registry
\* the contract right after its constructor has run
RegistryInit ==
    /\ nextAgentId = 1
    /\ owners = [i \in AgentIds |-> ZERO]
    /\ tokenApprovals = [i \in AgentIds |-> ZERO]
    /\ operatorApprovals = {}
    /\ tokenURIs = [i \in AgentIds |-> ""]
    /\ metadata = [i \in AgentIds |-> [k \in Keys |-> ""]]
    /\ lastCall = NoCall
    /\ calls = 0
    /\ pre = Snapshot
    /\ everSet = {}

\* no request has reached the admin route yet
NoRequest == [apiKey |-> "", status |-> 0, runsBefore |-> 0, runsAfter |-> 0]

\* the backend process before index.ts has called initUpdater()
UpdaterNotStarted ==
    /\ started = FALSE
    /\ registry = FALSE
    /\ cronScheduled = FALSE
    /\ warmupPending = FALSE
    /\ runs = << >>
    /\ lastReply = ""
    /\ lastRequest = NoRequest
    /\ now = 0

Init ==
    /\ RegistryInit
    /\ UpdaterNotStarted
    /\ StatsNotCalled
    /\ adminApiKey = ""
    /\ updaterPrivateKey = FALSE
    /\ registryAddress = FALSE

\* any principal sends any transaction, MaxCalls transactions in all
Next ==
    \/ \E c \in Principals, u \in URIs : calls < MaxCalls /\ Register(c, u)
    \/ \E c \in Principals, i \in AgentIds, u \in URIs :
            calls < MaxCalls /\ SetAgentURI(c, i, u)
    \/ \E c \in Principals, i \in AgentIds, k \in Keys, v \in Values :
            calls < MaxCalls /\ SetMetadata(c, i, k, v)
    \/ \E c \in Principals, f \in Principals, t \in Principals \cup {ZERO},
          i \in AgentIds : calls < MaxCalls /\ TransferFrom(c, f, t, i)
    \/ \E c \in Principals, t \in Principals \cup {ZERO}, i \in AgentIds :
            calls < MaxCalls /\ Approve(c, t, i)
    \/ \E c \in Principals, o \in Principals \cup {ZERO}, a \in BOOLEAN :
            calls < MaxCalls /\ SetApprovalForAll(c, o, a)

Spec == Init /\ [][Next]_vars

\* the last transaction sent was not reverted
Landed == lastCall'.status = OK

\* the externally owned accounts send transactions that all go through,
\* MaxChain of them in a row
ChainNext ==
    \/ \E c \in Accounts, u \in URIs :
            calls < MaxChain /\ Register(c, u) /\ Landed
    \/ \E c \in Accounts, i \in AgentIds, u \in URIs :
            calls < MaxChain /\ SetAgentURI(c, i, u) /\ Landed
    \/ \E c \in Accounts, i \in AgentIds, k \in Keys, v \in Values :
            calls < MaxChain /\ SetMetadata(c, i, k, v) /\ Landed
    \/ \E c \in Accounts, f \in Principals, t \in Principals, i \in AgentIds :
            calls < MaxChain /\ TransferFrom(c, f, t, i) /\ Landed
    \/ \E c \in Accounts, t \in Principals \cup {ZERO}, i \in AgentIds :
            calls < MaxChain /\ Approve(c, t, i) /\ Landed
    \/ \E c \in Accounts, o \in Principals, a \in BOOLEAN :
            calls < MaxChain /\ SetApprovalForAll(c, o, a) /\ Landed

ChainSpec == Init /\ [][ChainNext]_vars

\* ============================================================ the updater
UpdaterWallet == "bob"                      \* new ethers.Wallet(config.updaterPrivateKey)
AgentId == 1                                \* config.agentId
BaseUrl == "https://api.example.com"        \* config.baseUrl
WarmupDelay == 10                           \* setTimeout(..., 10000), in seconds

AdminKey == "secret"                        \* a value of ADMIN_API_KEY
SuppliedKeys == {"", "guess", AdminKey}     \* x-api-key / ?apiKey; "" when absent

ReplyNotConfigured == "Updater not configured"
ReplyTriggered == "Update triggered"
ReplyUpdateFailed == "Update failed"        \* the force-update route's catch

\* a URI without the version parameter
NewURIWithoutVersion(version) == BaseUrl \o "/erc8004/metadata"

\* `${config.baseUrl}/erc8004/metadata?v=${version}`
NewURI(version) == BaseUrl \o "/erc8004/metadata?v=" \o ToString(version)

\* where an updateTokenURI() invocation stands
AwaitingFee == "getFeeData"         \* await provider.getFeeData()
AwaitingSend == "setAgentURI"       \* await registry.setAgentURI(...)
AwaitingReceipt == "wait"           \* await tx.wait()
Confirmed == "confirmed"            \* the try block ran to its end
Failed == "failed"                  \* the catch block ran
InFlightPcs == {AwaitingFee, AwaitingSend, AwaitingReceipt}

\* the promise an updateTokenURI() invocation returned
Pending == "pending"
Fulfilled == "fulfilled"            \* the call returned normally
Rejected == "rejected"              \* an error left the call

RunIds == 1..Len(runs)
InFlight == {r \in RunIds : runs[r].pc \in InFlightPcs}
Submitted == {r \in RunIds : runs[r].pc \in {AwaitingSend, AwaitingReceipt}}

\* time passes; the clock is looked at every WarmupDelay seconds, so what
\* happens between two looks happens within the same second or 10 s apart
Advance ==
    /\ started
    /\ now < MaxAdvances * WarmupDelay
    /\ now' = now + WarmupDelay
    /\ UNCHANGED <<registryVars, callVars, adminVars,
                   updaterPrivateKey, registryAddress,
                   started, registry, cronScheduled, warmupPending, runs,
                   lastReply>>

\* an initUpdater() that looks at the key alone before arming its timers
InitUpdaterChecksKeyOnly ==
    /\ ~started
    /\ started' = TRUE
    /\ IF ~updaterPrivateKey
       THEN UNCHANGED <<registry, cronScheduled, warmupPending>>
       ELSE /\ registry' = TRUE
            /\ cronScheduled' = TRUE
            /\ warmupPending' = TRUE
    /\ UNCHANGED <<registryVars, callVars, adminVars,
                   updaterPrivateKey, registryAddress,
                   runs, lastReply, now>>

\* initUpdater(), called once from the listen callback of index.ts
InitUpdater ==
    /\ ~started
    /\ started' = TRUE
    /\ IF ~updaterPrivateKey \/ ~registryAddress
       THEN UNCHANGED <<registry, cronScheduled, warmupPending>>
       ELSE /\ registry' = TRUE
            /\ cronScheduled' = TRUE
            /\ warmupPending' = TRUE
    /\ UNCHANGED <<registryVars, callVars, adminVars,
                   updaterPrivateKey, registryAddress,
                   runs, lastReply, now>>

\* updateTokenURI() up to its first await: the version is read off the clock
\* and the fee query is issued
StartRun(source) ==
    /\ Len(runs) < MaxRuns
    /\ runs' = Append(runs, [source |-> source,
                             pc |-> AwaitingFee,
                             version |-> now,
                             uri |-> NewURI(now),
                             alone |-> InFlight = {},
                             promise |-> Pending,
                             reply |-> ""])

\* the cron task fires; node-cron fires a task at most once in a second
CronTick ==
    /\ cronScheduled
    /\ \A r \in RunIds : runs[r].source = "cron" => runs[r].version < now
    /\ StartRun("cron")
    /\ UNCHANGED <<registryVars, callVars, adminVars,
                   updaterPrivateKey, registryAddress,
                   started, registry, cronScheduled, warmupPending, lastReply,
                   now>>

\* a warm-up armed with setInterval instead of setTimeout: it stays armed
WarmupFiresRepeats ==
    /\ warmupPending
    /\ now >= WarmupDelay
    /\ warmupPending' = TRUE
    /\ StartRun("warmup")
    /\ UNCHANGED <<registryVars, callVars, adminVars,
                   updaterPrivateKey, registryAddress,
                   started, registry, cronScheduled, lastReply, now>>

\* the warm-up timeout fires, once
WarmupFires ==
    /\ warmupPending
    /\ now >= WarmupDelay
    /\ warmupPending' = FALSE
    /\ StartRun("warmup")
    /\ UNCHANGED <<registryVars, callVars, adminVars,
                   updaterPrivateKey, registryAddress,
                   started, registry, cronScheduled, lastReply, now>>

\* triggerUpdate() up to its first await
TriggerUpdate ==
    /\ started
    /\ IF ~registry
       THEN /\ lastReply' = ReplyNotConfigured
            /\ UNCHANGED runs
       ELSE /\ StartRun("manual")
            /\ UNCHANGED lastReply
    /\ UNCHANGED <<registryVars, callVars, adminApiKey, statsVars,
                   updaterPrivateKey, registryAddress,
                   started, registry, cronScheduled, warmupPending, now>>

\* HTTP status codes of the admin route
HttpOk == 200
HttpUnauthorized == 401
HttpUnavailable == 503

\* an adminAuth that lets every request through while no key is configured
AdminAuthStatusOpenWhenUnset(apiKey) ==
    IF adminApiKey # "" /\ apiKey # adminApiKey THEN HttpUnauthorized
    ELSE HttpOk

\* adminAuth: the status it answers with, or HttpOk when it calls next()
AdminAuthStatus(apiKey) ==
    IF adminApiKey = "" THEN HttpUnavailable
    ELSE IF apiKey # adminApiKey THEN HttpUnauthorized
    ELSE HttpOk

\* POST /erc8004/admin/force-update: adminAuth, then the handler awaits
\* triggerUpdate()
ForceUpdate(apiKey) ==
    /\ started
    /\ IF AdminAuthStatus(apiKey) = HttpOk
       THEN TriggerUpdate
       ELSE UNCHANGED <<registryVars, callVars, adminApiKey, statsVars, updaterPrivateKey,
                        registryAddress, started, registry, cronScheduled,
                        warmupPending, runs, lastReply, now>>
    /\ lastRequest' = [apiKey |-> apiKey,
                       status |-> AdminAuthStatus(apiKey),
                       runsBefore |-> Len(runs),
                       runsAfter |-> Len(runs')]

\* a catch block that also stops the cron task
AfterRunStopsCron(r, outcome) ==
    /\ cronScheduled' = (outcome # Failed /\ cronScheduled)
    /\ UNCHANGED <<adminVars, updaterPrivateKey, registryAddress, started,
                   registry, warmupPending>>

\* what the end of a run leaves of the scheduler: the catch block only logs
AfterRun(r, outcome) ==
    UNCHANGED <<adminVars, updaterPrivateKey, registryAddress, started,
                registry, cronScheduled, warmupPending>>

\* a catch block that logs and throws the error on
SettlesRethrowing(outcome) == IF outcome = Failed THEN Rejected ELSE Fulfilled

\* how the promise of updateTokenURI() settles: the whole body sits in one
\* try, and the catch block logs and falls off the end of the function
Settles(outcome) == Fulfilled

\* what the caller of triggerUpdate() gets once the awaited run has settled:
\* the string of triggerUpdate(), or the answer of the route's own catch
TriggerReply(outcome) ==
    IF Settles(outcome) = Fulfilled THEN ReplyTriggered ELSE ReplyUpdateFailed

\* a catch block that starts the sequence over instead of returning
EndRunRetries(r, outcome) ==
    /\ runs' = [runs EXCEPT ![r].pc = IF outcome = Failed THEN AwaitingFee
                                      ELSE outcome,
                            ![r].promise = IF outcome = Failed THEN Pending
                                           ELSE Settles(outcome)]
    /\ UNCHANGED lastReply
    /\ AfterRun(r, outcome)
    /\ UNCHANGED now

\* updateTokenURI() returns; a triggerUpdate() awaiting it returns its string
EndRun(r, outcome) ==
    /\ runs' = [runs EXCEPT ![r].pc = outcome,
                            ![r].promise = Settles(outcome),
                            ![r].reply = IF runs[r].source = "manual"
                                         THEN TriggerReply(outcome) ELSE ""]
    /\ lastReply' = IF runs[r].source = "manual" THEN TriggerReply(outcome)
                    ELSE lastReply
    /\ AfterRun(r, outcome)
    /\ UNCHANGED now

\* provider.getFeeData() resolves and registry.setAgentURI(...) is called
FeeOk(r) ==
    /\ r \in RunIds
    /\ runs[r].pc = AwaitingFee
    /\ runs' = [runs EXCEPT ![r].pc = AwaitingSend]
    /\ UNCHANGED <<registryVars, callVars, adminVars,
                   updaterPrivateKey, registryAddress,
                   started, registry, cronScheduled, warmupPending, lastReply,
                   now>>

\* provider.getFeeData() rejects
FeeFail(r) ==
    /\ r \in RunIds
    /\ runs[r].pc = AwaitingFee
    /\ EndRun(r, Failed)
    /\ UNCHANGED <<registryVars, callVars>>

\* the transaction is accepted by the node
SendOk(r) ==
    /\ r \in RunIds
    /\ runs[r].pc = AwaitingSend
    /\ runs' = [runs EXCEPT ![r].pc = AwaitingReceipt]
    /\ UNCHANGED <<registryVars, callVars, adminVars,
                   updaterPrivateKey, registryAddress,
                   started, registry, cronScheduled, warmupPending, lastReply,
                   now>>

\* registry.setAgentURI(...) rejects: the transaction was not sent
SendFail(r) ==
    /\ r \in RunIds
    /\ runs[r].pc = AwaitingSend
    /\ EndRun(r, Failed)
    /\ UNCHANGED <<registryVars, callVars>>

\* a run that takes any receipt for a confirmation, reverted or not
MinedIgnoresRevert(r) ==
    /\ r \in RunIds
    /\ runs[r].pc = AwaitingReceipt
    /\ SetAgentURIEffect(UpdaterWallet, AgentId, runs[r].uri)
    /\ pre' = Snapshot
    /\ UNCHANGED everSet
    /\ UNCHANGED calls
    /\ EndRun(r, Confirmed)

\* the transaction is mined: setAgentURI runs in the registry with the updater
\* wallet as msg.sender, and tx.wait() resolves, or rejects if it reverted
Mined(r) ==
    /\ r \in RunIds
    /\ runs[r].pc = AwaitingReceipt
    /\ SetAgentURIEffect(UpdaterWallet, AgentId, runs[r].uri)
    /\ pre' = Snapshot
    /\ UNCHANGED everSet
    /\ UNCHANGED calls
    /\ EndRun(r, IF SetAgentURIStatus(UpdaterWallet, AgentId, runs[r].uri) = OK
                 THEN Confirmed ELSE Failed)

\* tx.wait() rejects and the transaction never lands
WaitFail(r) ==
    /\ r \in RunIds
    /\ runs[r].pc = AwaitingReceipt
    /\ EndRun(r, Failed)
    /\ UNCHANGED <<registryVars, callVars>>

\* the backend process with its configuration read, before initUpdater()
UpdaterInit ==
    /\ RegistryInit
    /\ UpdaterNotStarted
    /\ StatsNotCalled
    /\ adminApiKey = AdminKey
    /\ updaterPrivateKey \in BOOLEAN
    /\ registryAddress \in BOOLEAN

\* the deployment flow of the README: the agent is registered and the
\* updater wallet approved before the backend is started
Deploys ==
    \/ \E c \in Accounts :
          /\ ~started /\ NextAgentId = AgentId
          /\ calls < MaxCalls /\ Register(c, "A")
    \/ \E c \in Accounts :
          /\ ~started /\ Exists(AgentId)
          /\ calls < MaxCalls /\ Approve(c, UpdaterWallet, AgentId)

\* what the agent's owner does on chain: the agent is registered and the
\* updater wallet approved before the backend is started (the deployment
\* flow of the README); the agent can change hands at any time
OwnerActs ==
    \/ Deploys
    \/ \E c \in Accounts : \E t \in Accounts \ {c} :
          /\ Exists(AgentId)
          /\ calls < MaxCalls /\ TransferFrom(c, c, t, AgentId)

UpdaterNext ==
    \/ InitUpdater
    \/ Advance
    \/ CronTick
    \/ WarmupFires
    \/ TriggerUpdate /\ UNCHANGED lastRequest
    \/ \E r \in 1..MaxRuns : FeeOk(r)
    \/ \E r \in 1..MaxRuns : FeeFail(r)
    \/ \E r \in 1..MaxRuns : SendOk(r)
    \/ \E r \in 1..MaxRuns : SendFail(r)
    \/ \E r \in 1..MaxRuns : Mined(r)
    \/ \E r \in 1..MaxRuns : WaitFail(r)
    \/ OwnerActs

UpdaterSpec == UpdaterInit /\ [][UpdaterNext]_vars

\* the transport answers: the promise a run is awaiting resolves or rejects
Answers(r) ==
    \/ FeeOk(r) \/ FeeFail(r)
    \/ SendOk(r) \/ SendFail(r)
    \/ Mined(r) \/ WaitFail(r)

\* the deployment flow of the README carried out by the deployer alone and
\* without a wasted transaction: register the agent, then approve the
\* updater wallet, or leave it unapproved
DeployerSetsUp ==
    \/ /\ ~started /\ NextAgentId = AgentId
       /\ calls < MaxCalls /\ Register(Deployer, "A")
    \/ /\ ~started /\ Exists(AgentId) /\ GetApproved(AgentId) = ZERO
       /\ calls < MaxCalls /\ Approve(Deployer, UpdaterWallet, AgentId)

\* the backend started with both updater settings present
RunsInit ==
    /\ UpdaterInit
    /\ updaterPrivateKey
    /\ registryAddress

\* the configured backend after that deployment, the agent staying with its
\* owner
RunsNext ==
    \/ DeployerSetsUp
    \/ InitUpdater
    \/ Advance
    \/ CronTick
    \/ WarmupFires
    \/ TriggerUpdate /\ UNCHANGED lastRequest
    \/ \E r \in 1..MaxRuns : FeeOk(r)
    \/ \E r \in 1..MaxRuns : FeeFail(r)
    \/ \E r \in 1..MaxRuns : SendOk(r)
    \/ \E r \in 1..MaxRuns : SendFail(r)
    \/ \E r \in 1..MaxRuns : Mined(r)
    \/ \E r \in 1..MaxRuns : WaitFail(r)

\* that backend with a transport that does not leave every pending fee query,
\* submission and confirmation wait unanswered for ever
RunsFairSpec ==
    /\ RunsInit
    /\ [][RunsNext]_vars
    /\ WF_vars(\E r \in 1..MaxRuns : Answers(r))

\* ------------------------------------------------------- the admin route
\* the backend with or without ADMIN_API_KEY, and with or without the
\* updater settings
AdminInit ==
    /\ RegistryInit
    /\ UpdaterNotStarted
    /\ StatsNotCalled
    /\ adminApiKey \in {"", AdminKey}
    /\ updaterPrivateKey \in BOOLEAN
    /\ registryAddress \in BOOLEAN

\* requests arrive at the admin route while the runs they start go on
AdminNext ==
    \/ InitUpdater
    \/ \E k \in SuppliedKeys : ForceUpdate(k)
    \/ \E r \in 1..MaxRuns : FeeOk(r)
    \/ \E r \in 1..MaxRuns : FeeFail(r)
    \/ \E r \in 1..MaxRuns : SendOk(r)
    \/ \E r \in 1..MaxRuns : SendFail(r)
    \/ \E r \in 1..MaxRuns : Mined(r)
    \/ \E r \in 1..MaxRuns : WaitFail(r)

AdminSpec == AdminInit /\ [][AdminNext]_vars

\* ------------------------------------------------ the stats service runs
\* requests for the metadata arrive while earlier ones await the API
StatsNext ==
    \/ GetStats
    \/ \E d \in Steps : Tick(d)
    \/ \E c \in 1..MaxRequests : \E data \in Bodies : Responds(c, data)
    \/ \E c \in 1..MaxRequests : FetchFails(c)

StatsSpec == Init /\ [][StatsNext]_vars

\* ================================================= properties: registry
\* what the storage before the last transaction says about a principal
PreExists(agentId) == pre.owners[agentId] # ZERO
PreOwner(agentId) == pre.owners[agentId]
PreApproved(agentId) == pre.tokenApprovals[agentId]
PreOperator(owner, operator) == <<owner, operator>> \in pre.operatorApprovals

Succeeded(op) == lastCall.op = op /\ lastCall.status = OK
Reverted(op) == lastCall.op = op /\ lastCall.status # OK

C2_RegisterEmptyURIReverts ==
    (lastCall.op = "register" /\ lastCall.uri = "") =>
        /\ lastCall.status = ErrTokenURIEmpty
        /\ lastCall.status \in ValidationError
        /\ NextAgentId = pre.nextAgentId
        /\ owners = pre.owners
        /\ tokenURIs = pre.tokenURIs
        /\ Snapshot = pre

C2_Witness ==
    /\ Reverted("register")
    /\ lastCall.uri = ""
    /\ NextAgentId = 2

\* C3: for an existing agent and a non-empty URI, setAgentURI succeeds
\* exactly when the caller is the owner, the token's approved address or an
\* operator of the owner; any other caller is refused with "Not owner or
\* approved" and the stored URI stays as it was.
C3_SetAgentURIAuthorization ==
    (lastCall.op = "setAgentURI" /\ PreExists(lastCall.agentId)
        /\ lastCall.uri # "") =>
        LET id == lastCall.agentId
            c == lastCall.caller
            allowed == \/ c = PreOwner(id)
                       \/ c = PreApproved(id)
                       \/ PreOperator(PreOwner(id), c)
        IN  /\ lastCall.status = OK <=> allowed
            /\ allowed => TokenURI(id) = lastCall.uri
            /\ ~allowed => /\ lastCall.status = ErrNotOwnerOrApproved
                           /\ lastCall.status \in PermissionDenied
                           /\ tokenURIs = pre.tokenURIs

\* an approved address, an operator and a stranger have each called
C3_Witness ==
    /\ Succeeded("setAgentURI")
    /\ lastCall.caller # PreOwner(lastCall.agentId)
    /\ lastCall.caller = PreApproved(lastCall.agentId)
    /\ ~PreOperator(PreOwner(lastCall.agentId), lastCall.caller)

\* a principal that is the token's approved address and nothing more
OnlyApproved(c, agentId) ==
    /\ Exists(agentId)
    /\ GetApproved(agentId) = c
    /\ OwnerOf(agentId) # c
    /\ ~IsApprovedForAll(OwnerOf(agentId), c)

\* C4: in every reachable state, a principal that is only the approved
\* address of an agent is refused by setMetadata and accepted by setAgentURI
\* with any non-empty URI; the calls such a principal made went that way.
C4_ApprovedAsymmetry ==
    /\ \A c \in Principals, id \in AgentIds :
           OnlyApproved(c, id) =>
               /\ SetMetadataStatus(c, id) = ErrNotOwnerOrApproved
               /\ \A u \in URIs \ {""} : SetAgentURIStatus(c, id, u) = OK
    /\ (lastCall.op \in {"setMetadata", "setAgentURI"}
           /\ PreExists(lastCall.agentId)
           /\ lastCall.caller = PreApproved(lastCall.agentId)
           /\ lastCall.caller # PreOwner(lastCall.agentId)
           /\ ~PreOperator(PreOwner(lastCall.agentId), lastCall.caller)) =>
               IF lastCall.op = "setMetadata"
               THEN lastCall.status \in PermissionDenied /\ metadata = pre.metadata
               ELSE lastCall.uri # "" => lastCall.status = OK

C4_Witness ==
    /\ Reverted("setMetadata")
    /\ OnlyApproved(lastCall.caller, lastCall.agentId)
    /\ lastCall.caller = PreApproved(lastCall.agentId)
    /\ SetAgentURIStatus(lastCall.caller, lastCall.agentId, "B") = OK

\* C5: for an existing agent, setMetadata succeeds exactly when the caller is
\* the owner or an operator of the owner; any other caller is refused with
\* "Not owner or approved" and every stored value stays as it was.
C5_SetMetadataAuthorization ==
    (lastCall.op = "setMetadata" /\ PreExists(lastCall.agentId)) =>
        LET id == lastCall.agentId
            c == lastCall.caller
            allowed == c = PreOwner(id) \/ PreOperator(PreOwner(id), c)
        IN  /\ lastCall.status = OK <=> allowed
            /\ allowed => GetMetadata(id, lastCall.key) = lastCall.value
            /\ ~allowed => /\ lastCall.status = ErrNotOwnerOrApproved
                           /\ lastCall.status \in PermissionDenied
                           /\ \A k \in Keys :
                                  GetMetadata(id, k) = pre.metadata[id][k]

C5_Witness ==
    /\ Succeeded("setMetadata")
    /\ lastCall.caller # PreOwner(lastCall.agentId)
    /\ PreOperator(PreOwner(lastCall.agentId), lastCall.caller)
    /\ lastCall.value # ""

\* the caller is refused by setAgentURI and by setMetadata on the agent
Refused(c, agentId) ==
    /\ \A u \in URIs : SetAgentURIStatus(c, agentId, u) \in PermissionDenied
    /\ SetMetadataStatus(c, agentId) \in PermissionDenied

\* the caller passes the owner-level checks of both operations
OwnerLevel(c, agentId) ==
    /\ OwnerOf(agentId) = c
    /\ \A u \in URIs \ {""} : SetAgentURIStatus(c, agentId, u) = OK
    /\ SetMetadataStatus(c, agentId) = OK

\* C6 as stated: after a successful transfer to X the previous owner is
\* refused by setAgentURI and setMetadata, X is authorized as owner and the
\* token has no approved address.
C6_AsStated ==
    Succeeded("transferFrom") =>
        /\ Refused(PreOwner(lastCall.agentId), lastCall.agentId)
        /\ OwnerLevel(lastCall.to, lastCall.agentId)
        /\ GetApproved(lastCall.agentId) = ZERO

\* C6 (amended): after a successful transfer to X, X is authorized as owner
\* for setAgentURI and setMetadata and the token has no approved address; the
\* previous owner is refused by both operations unless it is X itself or an
\* operator of X.
C6_TransferMovesAuthorization ==
    Succeeded("transferFrom") =>
        LET id == lastCall.agentId
            prev == PreOwner(id)
            X == lastCall.to
        IN  /\ OwnerLevel(X, id)
            /\ GetApproved(id) = ZERO
            /\ (prev # X /\ ~IsApprovedForAll(X, prev)) => Refused(prev, id)
            /\ (prev = X \/ IsApprovedForAll(X, prev)) => ~Refused(prev, id)

\* the token had an approved address and the previous owner lost access
C6_Witness ==
    /\ Succeeded("transferFrom")
    /\ PreApproved(lastCall.agentId) # ZERO
    /\ PreOwner(lastCall.agentId) # lastCall.to
    /\ Refused(PreOwner(lastCall.agentId), lastCall.agentId)

C16_UnsetKeyReadsEmpty ==
    \A i \in AgentIds, k \in Keys :
        (Exists(i) /\ <<i, k>> \notin everSet) =>
            /\ GetMetadataStatus(i, k) = OK
            /\ GetMetadata(i, k) = ""

\* an agent has a non-empty value under one key and another key never written
C16_Witness ==
    \E i \in AgentIds, k1 \in Keys, k2 \in Keys :
        /\ Exists(i)
        /\ <<i, k1>> \in everSet
        /\ GetMetadata(i, k1) # ""
        /\ <<i, k2>> \notin everSet

\* C17: nextAgentId() is one more than the id the latest successful register
\* assigned, 1 when nothing was registered, and the agents that exist are
\* exactly 1 .. nextAgentId() - 1.
C17_IdsAreDense ==
    /\ NextAgentId >= 1
    /\ {i \in AgentIds : Exists(i)} = 1..(NextAgentId - 1)
    /\ (\A i \in AgentIds : ~Exists(i)) => NextAgentId = 1
    /\ Succeeded("register") => NextAgentId = lastCall.ret + 1

\* two agents were registered and one of them has been transferred
C17_Witness ==
    /\ NextAgentId = 3
    /\ Succeeded("transferFrom")
    /\ lastCall.from # lastCall.to

C19_RevertChangesNothing ==
    lastCall.status # OK =>
        /\ Snapshot = pre
        /\ lastCall.events = NoEvents

\* a setAgentURI by an authorized caller has just reverted on the empty string
\* in a registry that holds an approval and a tokenURI
C19_Witness ==
    /\ Reverted("setAgentURI")
    /\ lastCall.status \in ValidationError
    /\ \E i \in AgentIds : GetApproved(i) # ZERO

\* C20: a successful transferFrom leaves every metadata entry as it was, so
\* getMetadata returns for every key of the transferred agent what it
\* returned before the transfer.
C20_TransferKeepsMetadata ==
    Succeeded("transferFrom") =>
        /\ \A k \in Keys : GetMetadata(lastCall.agentId, k)
                               = pre.metadata[lastCall.agentId][k]
        /\ metadata = pre.metadata

\* an agent with a non-empty metadata value has gone to another owner
C20_Witness ==
    /\ Succeeded("transferFrom")
    /\ lastCall.from # lastCall.to
    /\ \E k \in Keys : GetMetadata(lastCall.agentId, k) # ""

\* C21: a successful transferFrom leaves every operator approval as it was;
\* a principal that stands only on being an operator of the previous owner
\* (it is not the new owner, nor an operator of the new owner) is refused by
\* setAgentURI and setMetadata on the transferred agent and still let through
\* on every other agent of the previous owner.
C21_TransferKeepsOperators ==
    Succeeded("transferFrom") =>
        /\ operatorApprovals = pre.operatorApprovals
        /\ \A o \in Principals :
              (/\ PreOperator(PreOwner(lastCall.agentId), o)
               /\ o # lastCall.to
               /\ ~PreOperator(lastCall.to, o)) =>
                  /\ ~MaySetAgentURI(o, lastCall.agentId)
                  /\ ~MaySetMetadata(o, lastCall.agentId)
                  /\ SetAgentURIStatus(o, lastCall.agentId, "A")
                        \in PermissionDenied
                  /\ SetMetadataStatus(o, lastCall.agentId)
                        \in PermissionDenied
                  /\ \A j \in AgentIds \ {lastCall.agentId} :
                        (Exists(j) /\ OwnerOf(j) = PreOwner(lastCall.agentId))
                          => /\ SetAgentURIStatus(o, j, "A") = OK
                             /\ SetMetadataStatus(o, j) = OK

\* an owner of two agents with an operator has handed one of them to a
\* principal that is not that operator and has no operator of its own
C21_Witness ==
    /\ Succeeded("transferFrom")
    /\ \E o \in Principals, j \in AgentIds :
          /\ PreOperator(PreOwner(lastCall.agentId), o)
          /\ o # lastCall.to
          /\ o # PreOwner(lastCall.agentId)
          /\ ~PreOperator(lastCall.to, o)
          /\ j # lastCall.agentId
          /\ OwnerOf(j) = PreOwner(lastCall.agentId)

\* C22: after a successful setMetadata(agentId, key, value), getMetadata of
\* that agent and key returns value, whatever was stored before, and every
\* other agent/key pair holds what it held before the call.
C22_SetMetadataRoundTrip ==
    Succeeded("setMetadata") =>
        /\ GetMetadataStatus(lastCall.agentId, lastCall.key) = OK
        /\ GetMetadata(lastCall.agentId, lastCall.key) = lastCall.value
        /\ \A i \in AgentIds, k \in Keys :
              <<i, k>> # <<lastCall.agentId, lastCall.key>>
                 => GetMetadata(i, k) = pre.metadata[i][k]

\* a stored value has been overwritten by a different one while another key
\* of the agent holds a value
C22_Witness ==
    /\ Succeeded("setMetadata")
    /\ pre.metadata[lastCall.agentId][lastCall.key] # ""
    /\ pre.metadata[lastCall.agentId][lastCall.key] # lastCall.value
    /\ \E k \in Keys \ {lastCall.key} : GetMetadata(lastCall.agentId, k) # ""

\* C23: tokenURI and ownerOf revert for an agent that was never minted and
\* for no agent that was minted.
C23_ReadsRevertOnlyWhenUnminted ==
    \A i \in AgentIds :
        /\ i >= NextAgentId => /\ TokenURIStatus(i) \in NotFound
                               /\ OwnerOfStatus(i) \in NotFound
        /\ i < NextAgentId => /\ TokenURIStatus(i) = OK
                              /\ OwnerOfStatus(i) = OK
                              /\ TokenURI(i) # ""
                              /\ OwnerOf(i) # ZERO

\* one agent is minted, has changed hands and had its URI replaced, and
\* another id is still unminted
C23_Witness ==
    /\ Succeeded("setAgentURI")
    /\ NextAgentId = 2
    /\ OwnerOf(1) # lastCall.caller
    /\ \E i \in AgentIds : i >= NextAgentId

C26_SetAgentURIFrame ==
    Succeeded("setAgentURI") =>
        /\ TokenURIStatus(lastCall.agentId) = OK
        /\ TokenURI(lastCall.agentId) = lastCall.uri
        /\ \A i \in AgentIds \ {lastCall.agentId} :
              TokenURI(i) = pre.tokenURIs[i]
        /\ owners = pre.owners
        /\ metadata = pre.metadata
        /\ NextAgentId = pre.nextAgentId

\* the URI of one of two agents has been replaced by a different one
C26_Witness ==
    /\ Succeeded("setAgentURI")
    /\ pre.tokenURIs[lastCall.agentId] # lastCall.uri
    /\ \E i \in AgentIds \ {lastCall.agentId} :
          Exists(i) /\ TokenURI(i) # lastCall.uri

\* C27: an agent that existed before a transaction exists after it, every id
\* below nextAgentId() has an owner, nextAgentId() never goes down, and the id
\* a successful register returns had no owner before and is above every id
\* that had one.
C27_NeverDestroyedNeverReused ==
    /\ \A i \in AgentIds : PreExists(i) => Exists(i)
    /\ \A i \in AgentIds : i < NextAgentId => Exists(i)
    /\ pre.nextAgentId <= NextAgentId
    /\ Succeeded("register") =>
          /\ ~PreExists(lastCall.ret)
          /\ lastCall.ret = pre.nextAgentId
          /\ \A i \in AgentIds : PreExists(i) => i < lastCall.ret

\* the owner has tried to send its agent to address(0) and was refused
C27_Witness ==
    /\ Reverted("transferFrom")
    /\ lastCall.to = ZERO
    /\ PreOwner(lastCall.agentId) = lastCall.caller
    /\ Exists(lastCall.agentId)

\* C28: the owner of an existing agent differs from the owner before the
\* last transaction only if that transaction was a successful transferFrom of
\* that agent; register, setAgentURI, setMetadata, approve,
\* setApprovalForAll and every reverted call leave all owners of existing
\* agents as they were.
C28_OwnerChangesOnlyByTransfer ==
    /\ \A i \in AgentIds :
          (PreExists(i) /\ OwnerOf(i) # PreOwner(i)) =>
              /\ Succeeded("transferFrom")
              /\ lastCall.agentId = i
    /\ lastCall.status # OK => owners = pre.owners
    /\ lastCall.op \in {"setAgentURI", "setMetadata", "approve",
                         "setApprovalForAll"} => owners = pre.owners

\* a caller that is not the owner has replaced the URI of an agent
C28_Witness ==
    /\ Succeeded("setAgentURI")
    /\ lastCall.caller # OwnerOf(lastCall.agentId)
    /\ OwnerOf(lastCall.agentId) = PreOwner(lastCall.agentId)

\* the caller of the last transaction was, just before it, the owner of the
\* agent, its approved address or an operator of its owner
CallerWasAuthorized ==
    \/ lastCall.caller = PreOwner(lastCall.agentId)
    \/ lastCall.caller = PreApproved(lastCall.agentId)
    \/ PreOperator(PreOwner(lastCall.agentId), lastCall.caller)

\* C29: a transferFrom of an existing agent goes through only for a caller
\* that is the owner, the approved address or an operator of the owner; from
\* any other caller it reverts and no owner changes.
C29_TransferNeedsAuthorization ==
    (lastCall.op = "transferFrom" /\ PreExists(lastCall.agentId)) =>
        /\ lastCall.status = OK => CallerWasAuthorized
        /\ ~CallerWasAuthorized =>
              /\ lastCall.status # OK
              /\ lastCall.to # ZERO => lastCall.status \in PermissionDenied
              /\ owners = pre.owners

\* a caller has been refused a transfer of an agent on which another principal
\* holds the approval
C29_Witness ==
    /\ Reverted("transferFrom")
    /\ lastCall.status = ErrInsufficientApproval
    /\ PreApproved(lastCall.agentId) \notin {ZERO, lastCall.caller}

\* the events the registry declares itself
RegistryEventNames == {"Registered", "AgentURIUpdated", "MetadataSet"}

\* the positions of the registry's own events in the log of the last call
OwnEvents == {n \in 1..Len(lastCall.events) :
                 lastCall.events[n].name \in RegistryEventNames}

C36_ApprovedReachesMetadata ==
    /\ \A c \in Principals, id \in AgentIds :
          OnlyApproved(c, id) =>
            /\ SetMetadataStatus(c, id) = ErrNotOwnerOrApproved
            /\ TransferFromStatus(c, OwnerOf(id), c, id) = OK
            /\ ENABLED (/\ TransferFrom(c, OwnerOf(id), c, id)
                        /\ (SetMetadataStatus(c, id) = OK)')
    /\ (/\ Succeeded("transferFrom")
        /\ lastCall.to = lastCall.caller
        /\ PreApproved(lastCall.agentId) = lastCall.caller
        /\ PreOwner(lastCall.agentId) # lastCall.caller
        /\ ~PreOperator(PreOwner(lastCall.agentId), lastCall.caller))
          => /\ OwnerOf(lastCall.agentId) = lastCall.caller
             /\ SetMetadataStatus(lastCall.caller, lastCall.agentId) = OK
             /\ \A k \in Keys, v \in Values :
                   ENABLED (/\ SetMetadata(lastCall.caller, lastCall.agentId,
                                           k, v)
                            /\ (GetMetadata(lastCall.agentId, k) = v)')

\* a principal that was only approved has transferred the agent to itself,
\* the agent's metadata coming along as it was, and is now let through by
\* setMetadata
C36_Witness ==
    /\ Succeeded("transferFrom")
    /\ lastCall.to = lastCall.caller
    /\ PreApproved(lastCall.agentId) = lastCall.caller
    /\ PreOwner(lastCall.agentId) # lastCall.caller
    /\ ~PreOperator(PreOwner(lastCall.agentId), lastCall.caller)
    /\ pre.metadata[lastCall.agentId] = metadata[lastCall.agentId]
    /\ OwnerOf(lastCall.agentId) = lastCall.caller
    /\ SetMetadataStatus(lastCall.caller, lastCall.agentId) = OK

\* C37: setAgentURI looks at the caller before it looks at the URI: for an
\* existing agent a caller that is not authorized is refused with "Not owner
\* or approved" whatever the URI, the empty one included, and "URI cannot be
\* empty" is the answer only to a caller that is authorized for an existing
\* agent; the calls made went that way
C37_AuthorizationBeforeValidation ==
    /\ \A c \in Principals, id \in AgentIds :
          /\ (/\ owners[id] # ZERO
              /\ owners[id] # c
              /\ tokenApprovals[id] # c
              /\ <<owners[id], c>> \notin operatorApprovals)
                => /\ SetAgentURIStatus(c, id, "") \in PermissionDenied
                   /\ SetAgentURIStatus(c, id, "") \notin ValidationError
          /\ \A u \in URIs :
                SetAgentURIStatus(c, id, u) \in ValidationError
                  => /\ u = ""
                     /\ owners[id] # ZERO
                     /\ \/ owners[id] = c
                        \/ tokenApprovals[id] = c
                        \/ <<owners[id], c>> \in operatorApprovals
    /\ lastCall.op = "setAgentURI" =>
          /\ lastCall.status \in ValidationError
                => PreExists(lastCall.agentId) /\ CallerWasAuthorized
          /\ (PreExists(lastCall.agentId) /\ ~CallerWasAuthorized)
                => lastCall.status \in PermissionDenied

\* a caller without authorization has sent the empty URI for an existing
\* agent and was refused for want of authorization
C37_Witness ==
    /\ Reverted("setAgentURI")
    /\ lastCall.uri = ""
    /\ PreExists(lastCall.agentId)
    /\ ~CallerWasAuthorized
    /\ lastCall.status = ErrNotOwnerOrApproved

\* C38: an id that register() has not handed out has no owner, setAgentURI
\* and setMetadata on it revert for every caller and argument, every key of
\* it reads as the empty value and no URI is stored for it; the calls made
\* on such an id reverted and changed nothing
C38_NeverCreatedStaysEmpty ==
    /\ \A id \in AgentIds : id >= NextAgentId =>
          /\ ~Exists(id)
          /\ \A c \in Principals :
                /\ \A u \in URIs : SetAgentURIStatus(c, id, u) # OK
                /\ SetMetadataStatus(c, id) # OK
          /\ \A k \in Keys : /\ GetMetadataStatus(id, k) = OK
                              /\ GetMetadata(id, k) = ""
          /\ tokenURIs[id] = ""
          /\ TokenURIStatus(id) # OK
    /\ (/\ lastCall.op \in {"setAgentURI", "setMetadata"}
        /\ lastCall.agentId >= pre.nextAgentId)
          => /\ lastCall.status = ErrNonexistentToken
             /\ Snapshot = pre

\* setMetadata with a value was sent for an id not yet handed out, while
\* another agent exists, and it reverted
C38_Witness ==
    /\ Reverted("setMetadata")
    /\ lastCall.value # ""
    /\ lastCall.agentId >= NextAgentId
    /\ NextAgentId > 1
    /\ lastCall.status = ErrNonexistentToken

\* the principal is neither owner, nor approved, nor an operator of the
\* owner of the existing agent
Stranger(c, id) ==
    /\ owners[id] # ZERO
    /\ owners[id] # c
    /\ tokenApprovals[id] # c
    /\ <<owners[id], c>> \notin operatorApprovals

\* C39: the deployer of the registry, where it is a stranger to an agent, is
\* refused by setAgentURI, setMetadata and transferFrom with the answers any
\* other stranger gets; where it is only the approved address, setMetadata
\* refuses it too; and a call it made as a stranger reverted and changed
\* nothing
C39_DeployerHasNoPrivilege ==
    /\ \A id \in AgentIds :
          /\ Stranger(Deployer, id) =>
                /\ \A u \in URIs :
                      SetAgentURIStatus(Deployer, id, u) = ErrNotOwnerOrApproved
                /\ SetMetadataStatus(Deployer, id) = ErrNotOwnerOrApproved
                /\ \A t \in Principals :
                      TransferFromStatus(Deployer, OwnerOf(id), t, id)
                        = ErrInsufficientApproval
                /\ \A c \in Principals : Stranger(c, id) =>
                      /\ \A u \in URIs :
                            SetAgentURIStatus(c, id, u)
                              = SetAgentURIStatus(Deployer, id, u)
                      /\ SetMetadataStatus(c, id)
                            = SetMetadataStatus(Deployer, id)
                      /\ \A f \in Principals, t \in Principals \cup {ZERO} :
                            TransferFromStatus(c, f, t, id)
                              = TransferFromStatus(Deployer, f, t, id)
          /\ OnlyApproved(Deployer, id) =>
                SetMetadataStatus(Deployer, id) = ErrNotOwnerOrApproved
    /\ (/\ lastCall.op \in {"setAgentURI", "setMetadata", "transferFrom"}
        /\ lastCall.caller = Deployer
        /\ PreExists(lastCall.agentId)
        /\ ~CallerWasAuthorized)
          => /\ lastCall.status # OK
             /\ Snapshot = pre

\* the deployer has called setMetadata on an agent of somebody else and was
\* refused
C39_Witness ==
    /\ Reverted("setMetadata")
    /\ lastCall.caller = Deployer
    /\ Stranger(Deployer, lastCall.agentId)
    /\ PreExists(lastCall.agentId) /\ ~CallerWasAuthorized
    /\ lastCall.status = ErrNotOwnerOrApproved

\* ================================================== properties: updater
\* C7: the scheduler never has two setAgentURI submissions in flight at once.
C7_OneSubmissionInFlight == Cardinality(Submitted) <= 1

\* C8: a manual trigger that arrives while a run is in flight starts no run
\* of its own, so every run a manual trigger started began with none in flight.
C8_ManualTriggerAttaches ==
    \A r \in RunIds : runs[r].source = "manual" => runs[r].alone

\* C9: a recurring tick that fires while a run is in flight is skipped, so
\* every run a tick started began with none in flight.
C9_OverlappingTickSkipped ==
    \A r \in RunIds : runs[r].source = "cron" => runs[r].alone

\* the cron task fires and a new run issues its fee query
CronTickStartsRun ==
    /\ CronTick
    /\ Len(runs') = Len(runs) + 1
    /\ runs'[Len(runs')].pc = AwaitingFee
    /\ runs'[Len(runs')].source = "cron"

\* C10: once a run has ended in failure (fee query, submission, confirmation
\* or a reverted transaction) the cron task is still scheduled and the
\* contract handle still set, and a tick at a later second starts a new run.
C10_FailureKeepsSchedule ==
    (\E r \in RunIds : runs[r].pc = Failed) =>
        /\ cronScheduled
        /\ registry
        /\ (Len(runs) < MaxRuns
              /\ \A r \in RunIds : runs[r].source = "cron" => runs[r].version < now)
               => ENABLED CronTickStartsRun

\* a tick started a run after the run of the previous tick had failed
C10_Witness ==
    \E i, j \in RunIds :
        /\ i < j
        /\ runs[i].source = "cron"
        /\ runs[i].pc = Failed
        /\ runs[j].source = "cron"
        /\ runs[j].alone
        /\ runs[j].pc = AwaitingSend

\* the configuration initUpdater() rejects
NotConfigured == ~updaterPrivateKey \/ ~registryAddress

\* C11: when the updater key or the registry address is missing, initUpdater()
\* arms neither the cron task nor the warm-up timeout and sets no contract
\* handle, no run is ever started, and triggerUpdate() can only answer
\* "Updater not configured".
C11_NotConfiguredStaysIdle ==
    NotConfigured =>
        /\ ~cronScheduled
        /\ ~warmupPending
        /\ ~registry
        /\ runs = <<>>
        /\ lastReply \in {"", ReplyNotConfigured}
        /\ ~ENABLED CronTick
        /\ ~ENABLED WarmupFires

\* initUpdater() has returned early and a manual trigger has been answered
C11_Witness ==
    /\ started
    /\ NotConfigured
    /\ lastReply = ReplyNotConfigured

\* C12: every run that has ended, in the try block or in the catch block, has
\* fulfilled its promise, and the triggerUpdate() that awaited it has returned
\* its string; a run still in flight has a pending promise.
C12_RunNeverRaises ==
    \A r \in RunIds :
        /\ runs[r].promise # Rejected
        /\ runs[r].pc \in {Confirmed, Failed} =>
               /\ runs[r].promise = Fulfilled
               /\ runs[r].source = "manual" => runs[r].reply = ReplyTriggered
        /\ runs[r].pc \in InFlightPcs => runs[r].promise = Pending

\* a run started by a timer and a run started by hand have both failed
C12_Witness ==
    \E i, j \in RunIds :
        /\ runs[i].source # "manual"
        /\ runs[i].pc = Failed
        /\ runs[j].source = "manual"
        /\ runs[j].pc = Failed
        /\ runs[j].reply = ReplyTriggered

\* C13: what the caller of a manual trigger receives for a run that was
\* confirmed differs from what it receives for a run that failed.
C13_OutcomeReported ==
    \A i, j \in RunIds :
        (/\ runs[i].source = "manual"
         /\ runs[j].source = "manual"
         /\ runs[i].pc = Confirmed
         /\ runs[j].pc = Failed) => runs[i].reply # runs[j].reply

\* C14 as stated: of any two runs the later one carries a strictly greater
\* version, so the two URIs differ.
C14_AsStated ==
    \A i, j \in RunIds :
        i < j => /\ runs[i].version < runs[j].version
                 /\ runs[i].uri # runs[j].uri

\* C14: the version of a run is the second in which it started, so of any
\* two runs the later one's version is never smaller; the two URIs differ
\* exactly when the versions do, and runs started within one second carry the
\* same version and the same URI.
C14_VersionFollowsClock ==
    \A i, j \in RunIds :
        i < j => /\ runs[i].version <= runs[j].version
                 /\ runs[j].version <= now
                 /\ (runs[i].uri = runs[j].uri) <=>
                        (runs[i].version = runs[j].version)

\* a run started in a later second than the run before it
C14_Witness ==
    \E i, j \in RunIds :
        /\ i < j
        /\ runs[i].version < runs[j].version
        /\ runs[i].uri # runs[j].uri

\* C24: the force-update route reaches triggerUpdate() only when an admin key
\* is configured and the request carries it; without a configured key the
\* answer is 503, with a wrong or missing key 401, and neither starts a run.
C24_ForceUpdateNeedsKey ==
    lastRequest # NoRequest =>
        /\ lastRequest.status = HttpUnavailable <=> adminApiKey = ""
        /\ lastRequest.status = HttpUnauthorized <=>
              (adminApiKey # "" /\ lastRequest.apiKey # adminApiKey)
        /\ lastRequest.status = HttpOk <=>
              (adminApiKey # "" /\ lastRequest.apiKey = adminApiKey)
        /\ lastRequest.status # HttpOk =>
              lastRequest.runsAfter = lastRequest.runsBefore
        /\ lastRequest.runsAfter > lastRequest.runsBefore =>
              lastRequest.apiKey = adminApiKey

\* a request with a wrong key has been turned away after a request with the
\* right key had started a run
C24_Witness ==
    /\ lastRequest.status = HttpUnauthorized
    /\ lastRequest.apiKey = "guess"
    /\ lastRequest.runsBefore = 1
    /\ runs[1].source = "manual"

\* the runs started by the warm-up timeout
WarmupRuns == {r \in RunIds : runs[r].source = "warmup"}

\* C31: once initUpdater() has run with both settings present, the cron task
\* is scheduled and stays scheduled, the warm-up timeout is either still
\* armed with no warm-up run started or spent with exactly one warm-up run
\* started, and the cron task can fire again in every second in which it has
\* not fired yet
C31_StartupArmsBothTimers ==
    (started /\ updaterPrivateKey /\ registryAddress) =>
        /\ cronScheduled
        /\ IF warmupPending THEN WarmupRuns = {}
                            ELSE Cardinality(WarmupRuns) = 1
        /\ warmupPending => now < WarmupDelay \/ Len(runs) = MaxRuns
                                              \/ ENABLED WarmupFires
        /\ (/\ Len(runs) < MaxRuns
            /\ \A r \in RunIds : runs[r].source = "cron" => runs[r].version < now)
              => ENABLED CronTick

\* the warm-up run has started and ended, and a cron run was started after it
C31_Witness ==
    /\ cronScheduled /\ ~warmupPending
    /\ \E w \in WarmupRuns : \E r \in RunIds :
          /\ runs[w].pc \in {Confirmed, Failed}
          /\ runs[r].source = "cron" /\ w < r


\* the steps one run of updateTokenURI() takes: it starts at the fee query,
\* goes on to the submission and to the confirmation wait or fails, ends
\* Confirmed or Failed, and stays ended
RunFollowsOrder(r) ==
    IF r \notin RunIds
    THEN r \in DOMAIN runs' => runs'[r].pc = AwaitingFee
    ELSE \/ runs'[r].pc = runs[r].pc
         \/ runs[r].pc = AwaitingFee /\ runs'[r].pc \in {AwaitingSend, Failed}
         \/ runs[r].pc = AwaitingSend
              /\ runs'[r].pc \in {AwaitingReceipt, Failed}
         \/ runs[r].pc = AwaitingReceipt /\ runs'[r].pc \in {Confirmed, Failed}

C33_AsStated ==
    \A c \in RequestIds :
        requests[c].successSeen >= 0 =>
            IF requests[c].now - requests[c].successSeen < CACHE_TTL_MS
            THEN /\ ~requests[c].fetched
                 /\ requests[c].result = requests[c].seen.stats
            ELSE requests[c].fetched

\* C33: the cache timestamp is the start time of the call whose fetch wrote
\* the cache; a call that starts less than a TTL after that start returns
\* what is cached, issues no fetch and leaves the cache alone, and a call
\* that starts a TTL or more after it, or with nothing cached, fetches
C33_FreshnessFromCallStart ==
    /\ IF cachedBy = 0
       THEN cachedStats = NoStats
       ELSE /\ cachedStats # NoStats
            /\ requests[cachedBy].from = FromFetch
            /\ cacheTimestamp = requests[cachedBy].now
    /\ \A c \in RequestIds :
          IF /\ requests[c].seen.by # 0
             /\ requests[c].now - requests[requests[c].seen.by].now
                   < CACHE_TTL_MS
          THEN /\ ~requests[c].fetched
               /\ requests[c].pc = Returned
               /\ requests[c].from = FromCache
               /\ requests[c].result = requests[c].seen.stats
               /\ requests[c].after = requests[c].seen
          ELSE requests[c].fetched

\* a call was served from the cache before the TTL was over, and a later
\* call, started when it was over, fetched again
C33_Witness ==
    \E c, d \in RequestIds :
        /\ c < d
        /\ requests[c].from = FromCache
        /\ requests[d].seen.by # 0
        /\ requests[d].fetched
        /\ requests[d].now - requests[d].seen.timestamp = CACHE_TTL_MS


\* the getStats() calls whose fetch failed
CaughtRequests == {c \in RequestIds : requests[c].from = FromCatch}

\* C34, as stated: every call returns stats; a call whose fetch failed
\* returns what the last successful fetch cached, or else one fixed fallback
\* value, and leaves the cache as it was
C34_AsStated ==
    /\ \A c \in RequestIds : requests[c].pc = Returned =>
                                requests[c].result # NoStats
    /\ \A c \in CaughtRequests :
          /\ requests[c].after = requests[c].before
          /\ requests[c].result =
                IF requests[c].before.by # 0
                THEN requests[requests[c].before.by].result
                ELSE getFallbackStats(0)

\* C34: every call returns stats; a call whose fetch failed returns what the
\* last successful fetch cached, whatever its age, or else the fallback
\* stamped with the time of the failure, and leaves the cached value and
\* the cache timestamp as they were
C34_FailureFallsBack ==
    /\ \A c \in RequestIds : requests[c].pc = Returned =>
                                requests[c].result # NoStats
    /\ cachedBy # 0 => /\ requests[cachedBy].endedAt = lastSuccessAt
                       /\ requests[cachedBy].result = cachedStats
    /\ \A c \in CaughtRequests :
          /\ requests[c].after = requests[c].before
          /\ requests[c].result =
                IF requests[c].before.by # 0
                THEN requests[requests[c].before.by].result
                ELSE getFallbackStats(requests[c].endedAt)
          /\ requests[c].result.tvl = getFallbackStats(0).tvl
                <=> requests[c].before.by = 0

\* one failed fetch was answered with the fallback, and a later one, a TTL
\* or more after the cache was written, with what was cached
C34_Witness ==
    \E c, d \in CaughtRequests :
        /\ requests[c].before.by = 0
        /\ requests[c].endedAt > 0
        /\ requests[d].before.by # 0
        /\ requests[d].endedAt - requests[d].before.timestamp >= CACHE_TTL_MS
        /\ requests[d].result = requests[d].before.stats


\* ========================================= properties: updater and registry
\* the updater wallet is neither the agent's owner, nor approved for it, nor
\* an operator of its owner, or there is no such agent
UpdaterShutOut ==
    \/ owners[AgentId] = ZERO
    \/ /\ owners[AgentId] # UpdaterWallet
       /\ tokenApprovals[AgentId] # UpdaterWallet
       /\ <<owners[AgentId], UpdaterWallet>> \notin operatorApprovals

\* C35: while the updater wallet is shut out of the agent, a run that ends
\* ends Failed, no step of a run changes a tokenURI, the cron task stays
\* scheduled with the contract handle in place, the cron task can fire again
\* in every second in which it has not fired yet, and the run it starts
\* begins anew at the fee query
C35_ShutOutRunsFail ==
    /\ [](UpdaterShutOut /\ cronScheduled /\ Len(runs) < MaxRuns
           /\ (\A r \in RunIds : runs[r].source = "cron" => runs[r].version < now)
             => ENABLED CronTick)
    /\ [][UpdaterShutOut =>
            /\ \A r \in RunIds :
                  runs[r].pc \in InFlightPcs /\ runs'[r].pc \notin InFlightPcs
                    => runs'[r].pc = Failed
            /\ runs' # runs => tokenURIs' = tokenURIs
            /\ cronScheduled => cronScheduled'
            /\ registry => registry'
            /\ Len(runs') > Len(runs) =>
                  /\ runs'[Len(runs')].pc = AwaitingFee
                  /\ runs'[Len(runs')].uri = NewURI(now)]_vars

\* the agent has left the updater wallet's hands, a run has been mined and
\* reverted, leaving the pointer as registered, and the cron task has since
\* started another run
C35_Witness ==
    /\ Exists(AgentId) /\ UpdaterShutOut
    /\ pre.owners[AgentId] # ZERO
    /\ lastCall.op = "setAgentURI" /\ lastCall.caller = UpdaterWallet
    /\ lastCall.status = ErrNotOwnerOrApproved
    /\ tokenURIs[AgentId] = "A"
    /\ \E r, q \in RunIds :
          /\ r < q
          /\ runs[r].pc = Failed
          /\ runs[q].source = "cron" /\ runs[q].alone


\* the getStats() calls whose fetch was answered and cached
CachingRequests == {c \in RequestIds : requests[c].from = FromFetch}

\* C40, as stated: no cache write moves the cache timestamp back, and none
\* replaces what is cached by the result of a call that started before the
\* call whose result was cached
C40_CacheNeverGoesBack ==
    \A c \in CachingRequests :
        /\ requests[c].after.timestamp >= requests[c].before.timestamp
        /\ requests[c].before.by # 0 =>
              requests[c].now >= requests[requests[c].before.by].now

====
